---- MODULE Spec2Model ----
(***************************************************************************)
(* ENLIGHTEN: horizontal-ROI cropping, feature enablement (external        *)
(* trigger, horizontal ROI, Raman mode), the cloud EEPROM restore and the  *)
(* marquee (message drawer and toasts), modelled from src/enlighten.       *)
(*                                                                         *)
(* Python's None is the empty tuple and a present object x is <<x>>, so    *)
(* that a null array and an empty array stay different values.             *)
(***************************************************************************)
EXTENDS Integers, Sequences, FiniteSets, TLC

VARIABLES
    multispec,      \* ctl.multispec.current_spectrometer(): None or a spectrometer
    crop_call,      \* the last HorizROIFeature.crop call: its arguments and outcome
    horiz_roi,      \* the HorizROIFeature object and its two widgets
    page_nav,       \* ctl.page_nav: doing_expert(), doing_raman()
    bench,          \* the spectrometer on the bench, which may be connected
    reading,        \* the ProcessedReading handed to HorizROIFeature.process
    raman_mode,     \* the RamanModeFeature object, its checkbox, and what it sets
    vcr_paused,     \* ctl.vcr_controls.is_paused()
    external_trigger, \* the ExternalTriggerFeature object and its checkbox
    device,         \* the connected device's trigger source and queued settings
    cloud,          \* the CloudManager object, the local files, the EEPROM editor
    marquee,        \* the Marquee object: its label, its timers, its toast dialogs
    last            \* the operation that produced this state, with its argument

vars == <<multispec, crop_call, horiz_roi, page_nav, bench, reading,
          raman_mode, vcr_paused, external_trigger, device, cloud, marquee,
          last>>

\* groups of variables an operation of another feature leaves alone
horiz_vars == <<crop_call, horiz_roi, reading>>
raman_vars == <<raman_mode, vcr_paused>>
trigger_vars == <<external_trigger, device>>

-----------------------------------------------------------------------------
(* Bounds *)

\* longest array; every array of the process model has exactly this many pixels
MaxLen == 3

\* most trigger-source settings queued for the device thread at once
MaxPending == 2

-----------------------------------------------------------------------------
(* None / present *)

None == <<>>
Some(x) == <<x>>
IsNone(o) == o = <<>>
Val(o) == o[1]

\* an array of n pixels whose i-th element (0-based) is base + i
Ramp(base, n) == [i \in 1..n |-> base + i - 1]

\* Python's a[lo:hi] for 0 <= lo, 0 <= hi (0-based, hi exclusive, clamped)
Slice(a, lo, hi) ==
    LET h == IF hi > Len(a) THEN Len(a) ELSE hi
    IN  IF lo >= h THEN <<>> ELSE [i \in 1..(h - lo) |-> a[lo + i]]

-----------------------------------------------------------------------------
(* wasatch.ROI, the collaborator the spec's data model describes *)

ROI(s, e) == [start |-> s, end |-> e]

\* ROI.valid(): start < end, start not negative
roi_valid(roi) == roi.start >= 0 /\ roi.start < roi.end

\* ROI.crop(array): array[start:end]
roi_crop(roi, a) == Slice(a, roi.start, roi.end)

\* every ROI an EEPROM or a caller can hold here, degenerate ones included
ROIPool == {ROI(s, e) : s \in 0..MaxLen, e \in 0..MaxLen}
OptROI == {None} \cup {Some(r) : r \in ROIPool}

-----------------------------------------------------------------------------
(* Spectrometers and their settings *)

\* SpectrometerSettings of a detector of n pixels with EEPROM ROI r (or None),
\* with its capability flags
DeviceSettings(r, n, micro, laser, triggering) ==
    [eeprom      |-> [roi |-> r, has_laser |-> laser],
     is_micro    |-> micro,
     supports_triggering |-> triggering,
     wavelengths |-> Some(Ramp(50, n)),
     wavenumbers |-> Some(Ramp(60, n))]

Settings(r, n) == DeviceSettings(r, n, FALSE, TRUE, TRUE)

Spectrometer(r, n) == [settings |-> Settings(r, n)]

\* settings.eeprom.get_horizontal_roi()
get_horizontal_roi(settings) == settings.eeprom.roi

\* settings.eeprom.has_horizontal_roi()
has_horizontal_roi(settings) == ~IsNone(settings.eeprom.roi)

-----------------------------------------------------------------------------
(* HorizROIFeature.crop *)

Returned(v) == [raised |-> FALSE, value |-> v]
Raised == [raised |-> TRUE, value |-> None]

\* the bounds test made before slicing
crop_rejects(roi, orig_len) ==
    ~roi_valid(roi) \/ roi.start >= orig_len \/ roi.end >= orig_len

\* the ROI crop() ends up with: the one passed, else the given spectrometer's,
\* else the current spectrometer's.  Only evaluated when the lookup does not raise.
crop_find_roi(spec, roi, settings, cur) ==
    LET roi1 == IF IsNone(roi) /\ ~IsNone(settings)
                THEN get_horizontal_roi(Val(spec).settings) ELSE roi
        roi2 == IF IsNone(roi1) /\ ~IsNone(spec)
                THEN get_horizontal_roi(Val(spec).settings) ELSE roi1
    IN  IF IsNone(roi2) /\ ~IsNone(cur)
        THEN get_horizontal_roi(Val(cur).settings) ELSE roi2

\* "if roi is None and settings: roi = spec.settings..." dereferences spec
crop_raises(spec, roi, settings) ==
    IsNone(roi) /\ ~IsNone(settings) /\ IsNone(spec)

crop(spectrum, spec, roi, settings, cur) ==
    IF IsNone(spectrum) THEN Returned(None)
    ELSE IF crop_raises(spec, roi, settings) THEN Raised
    ELSE LET found == crop_find_roi(spec, roi, settings, cur)
         IN  IF IsNone(found) THEN Returned(spectrum)
             ELSE IF crop_rejects(Val(found), Len(Val(spectrum)))
                  THEN Returned(spectrum)
                  ELSE Returned(Some(roi_crop(Val(found), Val(spectrum))))

-----------------------------------------------------------------------------
(* Inputs of the crop model *)

CropArrays == {None} \cup {Some(Ramp(10, n)) : n \in 0..MaxLen}
CropSpectrometers == {None} \cup {Some(Spectrometer(r, MaxLen)) : r \in OptROI}
CropSettings == {None, Some(Settings(None, MaxLen))}

NoCall == None
NoReading == None
Pending == [raised |-> FALSE, value |-> Some(<<-1>>)]
NoAnswer == [ok |-> FALSE, checked |-> FALSE]
Last(op) == [op |-> op, settings |-> None, n |-> 0, before |-> FALSE,
             answer |-> NoAnswer, token |-> None, force |-> FALSE, waited |-> 0]

\* HorizROIFeature.__init__ with no spectrometer connected yet: enabled and
\* user_requested_enabled default to True and update_visibility() returns at
\* once, so the widgets keep what the form gave them (bv, ev)
HorizROIInit(bv, ev) ==
    [enabled |-> TRUE, user_requested_enabled |-> TRUE,
     button_visible |-> bv, cb_editing_visible |-> ev,
     cb_editing_checked |-> FALSE, regions_shown |-> FALSE]

\* RamanModeFeature.__init__ at start-up, no spectrometer connected: the
\* update_visibility() it ends with hides and unticks the checkbox; sup is the
\* "suppress_raman_mode_warning" option the configuration file holds
RamanModeInit(sup) ==
    [enabled |-> FALSE, visible |-> FALSE, cb_visible |-> FALSE,
     cb_checked |-> FALSE, restricted |-> FALSE, suppress |-> sup,
     laser_forced_on |-> FALSE]

\* ExternalTriggerFeature.__init__: enabled is False, the checkbox as the form
\* made it (shown or not, unticked)
ExternalTriggerInit(cv) ==
    [enabled |-> FALSE, cb_visible |-> cv, cb_checked |-> FALSE]

\* the device: spec.settings.state.trigger_source, the settings that
\* change_device_setting has queued for the device thread, the last one issued,
\* and whether the marquee was told "waiting for trigger"
DeviceInit(ts) == [trigger_source |-> ts, pending |-> <<>>, last_sent |-> None,
                   waiting_shown |-> FALSE]

\* a perform_restore call that has done nothing yet
NoRestore ==
    [serial |-> None, credential |-> "none", download |-> "none",
     downloads |-> 0, imports |-> 0, dialogs |-> <<>>, escaped |-> FALSE]

\* CloudManager.__init__: without AWS keys (DISABLED) the button stays
\* unconnected; nothing is downloaded or imported yet
CloudInit(disabled) ==
    [disabled |-> disabled, session |-> FALSE, files |-> {}, eeprom |-> None,
     call |-> NoRestore]

CloudIdle == cloud = CloudInit(FALSE)

\* Marquee class constants; the opacity step is kept in percent of the
\* original opacity (0.05 of 1.0 is 5 of 100)
DRAWER_DURATION_MS == 3000
TOAST_DURATION_MS == 3000
TOAST_FADE_STEP_MS == 75
TOAST_FADE_STEP_OPACITY_PERCENT == 5

\* Marquee.__init__: hide() clears the label; both timers are single-shot and
\* not running (a timer is the set of its pending expiries, each the time left
\* in ms); no toast yet.  dialogs are the message boxes toast() has created,
\* age the ms since the displayed message was posted (counted up to due, the
\* display time it was posted with), posted the number of messages so far
MarqueeInit ==
    [label |-> "", showing_something |-> FALSE, persist |-> FALSE,
     last_token |-> None, extra_ms |-> 0, clear_timer |-> {},
     toast_timer |-> {}, toast_dialog |-> None, toast_opacity |-> 100,
     dialogs |-> <<>>, age |-> 0, due |-> 0, posted |-> 0]

MarqueeIdle == marquee = MarqueeInit


RamanIdle == raman_mode = RamanModeInit(FALSE) /\ vcr_paused = FALSE
TriggerIdle ==
    /\ external_trigger = ExternalTriggerInit(FALSE)
    /\ device = DeviceInit("INTERNAL")

\* a caller about to call crop(spectrum, spec, roi, settings), any arguments
InitCrop ==
    /\ multispec \in CropSpectrometers
    /\ \E spectrum \in CropArrays, spec \in CropSpectrometers,
          roi \in OptROI, settings \in CropSettings :
          crop_call = Some([spectrum |-> spectrum, spec |-> spec, roi |-> roi,
                            settings |-> settings, result |-> Pending])
    /\ horiz_roi = HorizROIInit(TRUE, TRUE)
    /\ page_nav = [expert |-> FALSE, raman |-> FALSE]
    /\ bench = None
    /\ reading = NoReading
    /\ RamanIdle
    /\ TriggerIdle
    /\ CloudIdle
    /\ MarqueeIdle
    /\ last = Last("init")

\* the call itself
CropCall ==
    /\ last.op = "init"
    /\ ~IsNone(crop_call)
    /\ LET c == Val(crop_call)
       IN  crop_call' = Some([c EXCEPT !.result =
                   crop(c.spectrum, c.spec, c.roi, c.settings, multispec)])
    /\ last' = Last("crop")
    /\ UNCHANGED <<marquee, cloud, multispec, horiz_roi, page_nav, bench, reading, raman_vars, trigger_vars>>

NextCrop == CropCall

SpecCrop == InitCrop /\ [][NextCrop]_vars

-----------------------------------------------------------------------------
(* HorizROIFeature: enablement *)

\* update_regions(spec): the curtains are on the graph only while editing
update_regions(self, cur) ==
    IF IsNone(cur) THEN self
    ELSE [self EXCEPT !.regions_shown = self.cb_editing_checked]

button_callback_flip(self) ==
    [self EXCEPT !.enabled = ~self.enabled,
                 !.user_requested_enabled = ~self.enabled]

HR_init_hotplug(self, cur) ==
    [self EXCEPT !.enabled = /\ ~IsNone(cur)
                             /\ has_horizontal_roi(Val(cur).settings)
                             /\ self.user_requested_enabled]

HR_update_visibility(self, cur, nav) ==
    IF IsNone(cur) THEN self
    ELSE LET shown == has_horizontal_roi(Val(cur).settings)
             s1 == [self EXCEPT
                       !.cb_editing_visible = nav.expert,
                       !.enabled = IF shown THEN self.user_requested_enabled ELSE FALSE,
                       !.button_visible = shown]
         IN  update_regions(s1, cur)

HR_button_callback(self, cur, nav) ==
    HR_update_visibility(button_callback_flip(self), cur, nav)

\* stateChanged of the editing checkbox: Qt has flipped it, then the callback runs
HR_cb_editing_callback(self, cur) ==
    update_regions([self EXCEPT !.cb_editing_checked = ~self.cb_editing_checked], cur)

-----------------------------------------------------------------------------
(* HorizROIFeature.process *)

\* ProcessedReading(settings=settings): every array of a new reading is None
ProcessedReading(settings) ==
    [settings |-> settings, processed |-> None, raw |-> None, dark |-> None,
     reference |-> None, wavelengths |-> None, wavenumbers |-> None,
     cropped |-> None]

\* self.crop(array, roi=roi)
crop_with(array, roi, cur) == crop(array, None, roi, None, cur).value

\* the settings process() works with: the argument, else the reading's, else
\* the current spectrometer's
process_settings(pr, settings, cur) ==
    LET s1 == IF IsNone(settings) THEN Val(pr).settings ELSE settings
    IN  IF IsNone(s1) /\ ~IsNone(cur) THEN Some(Val(cur).settings) ELSE s1

\* a bundle cropped from the previous cropped bundle when there is one
process_bundle_recrop(pr, settings, roi, cur) ==
    LET from(a, b) == IF IsNone(pr.cropped) THEN a ELSE b
        cut(a) == IF IsNone(a) THEN None ELSE Some(roi_crop(Val(roi), Val(a)))
    IN  [ProcessedReading(settings) EXCEPT
        !.processed   = cut(from(pr.processed, Val(pr.cropped).processed)),
        !.raw         = cut(from(pr.raw, Val(pr.cropped).raw)),
        !.reference   = cut(from(pr.raw, Val(pr.cropped).reference)),
        !.wavelengths = cut(from(Val(settings).wavelengths, Val(pr.cropped).wavelengths)),
        !.wavenumbers = cut(from(Val(settings).wavenumbers, Val(pr.cropped).wavenumbers))]

\* the bundle process() builds
process_bundle(pr, settings, roi, cur) ==
    [ProcessedReading(settings) EXCEPT
        !.processed   = crop_with(pr.processed, roi, cur),
        !.raw         = crop_with(pr.raw, roi, cur),
        !.reference   = crop_with(pr.raw, roi, cur),
        !.wavelengths = crop_with(Val(settings).wavelengths, roi, cur),
        !.wavenumbers = crop_with(Val(settings).wavenumbers, roi, cur)]

\* a process() that also replaces the reading's own spectrum by the cropped one
process_store_inplace(pr, prc) ==
    [pr EXCEPT !.cropped = Some(prc), !.processed = prc.processed]

\* what process() assigns to the reading it was given
process_store(pr, prc) == [pr EXCEPT !.cropped = Some(prc)]

\* a process() that does not look at self.enabled
process_ignoring_enabled(self, pr, settings, cur) ==
    IF IsNone(pr) THEN pr
    ELSE IF IsNone(Val(pr).processed) THEN pr
    ELSE LET s == process_settings(pr, settings, cur)
         IN  IF IsNone(s) THEN pr
             ELSE LET roi == get_horizontal_roi(Val(s))
                  IN  IF IsNone(roi) THEN pr
                      ELSE Some(process_store(Val(pr),
                                   process_bundle(Val(pr), s, roi, cur)))

\* process(pr, settings): the reading afterwards
process(self, pr, settings, cur) ==
    IF ~self.enabled THEN pr
    ELSE IF IsNone(pr) THEN pr
    ELSE IF IsNone(Val(pr).processed) THEN pr
    ELSE LET s == process_settings(pr, settings, cur)
         IN  IF IsNone(s) THEN pr
             ELSE LET roi == get_horizontal_roi(Val(s))
                  IN  IF IsNone(roi) THEN pr
                      ELSE Some(process_store(Val(pr),
                                   process_bundle(Val(pr), s, roi, cur)))

-----------------------------------------------------------------------------
(* The horizontal-ROI model: one spectrometer on the bench, its EEPROM fixed *)

BenchSpectrometers == {Spectrometer(r, MaxLen) : r \in OptROI}

\* readings as the driver delivers them: MaxLen pixels, nothing cropped yet
Readings(settings) ==
    {[processed |-> p, raw |-> r, dark |-> Some(Ramp(30, MaxLen)),
      reference |-> Some(Ramp(40, MaxLen)), settings |-> s, cropped |-> None] :
        p \in {None, Some(Ramp(10, MaxLen))},
        r \in {None, Some(Ramp(20, MaxLen))},
        s \in {None, Some(settings)}}

InitHorizROI ==
    /\ multispec = None
    /\ crop_call = NoCall
    /\ \E bv \in BOOLEAN, ev \in BOOLEAN : horiz_roi = HorizROIInit(bv, ev)
    /\ page_nav = [expert |-> FALSE, raman |-> FALSE]
    /\ bench \in {Some(sp) : sp \in BenchSpectrometers}
    /\ reading = NoReading
    /\ RamanIdle
    /\ TriggerIdle
    /\ CloudIdle
    /\ MarqueeIdle
    /\ last = Last("init")

\* the bench spectrometer is connected and selected
Connect ==
    /\ IsNone(multispec)
    /\ multispec' = bench
    /\ last' = Last("connect")
    /\ UNCHANGED <<marquee, cloud, crop_call, horiz_roi, page_nav, bench, reading, raman_vars, trigger_vars>>

Disconnect ==
    /\ ~IsNone(multispec)
    /\ multispec' = None
    /\ last' = Last("disconnect")
    /\ UNCHANGED <<marquee, cloud, crop_call, horiz_roi, page_nav, bench, reading, raman_vars, trigger_vars>>

\* the user enters or leaves expert mode
SetExpert ==
    /\ page_nav' = [page_nav EXCEPT !.expert = ~page_nav.expert]
    /\ last' = Last("set_expert")
    /\ UNCHANGED <<marquee, cloud, multispec, crop_call, horiz_roi, bench, reading, raman_vars, trigger_vars>>

InitHotplug ==
    /\ horiz_roi' = HR_init_hotplug(horiz_roi, multispec)
    /\ last' = Last("init_hotplug")
    /\ UNCHANGED <<marquee, cloud, multispec, crop_call, page_nav, bench, reading, raman_vars, trigger_vars>>

UpdateVisibility ==
    /\ horiz_roi' = HR_update_visibility(horiz_roi, multispec, page_nav)
    /\ last' = Last("update_visibility")
    /\ UNCHANGED <<marquee, cloud, multispec, crop_call, page_nav, bench, reading, raman_vars, trigger_vars>>

\* the user clicks the ROI toggle button; last counts the clicks in succession
\* and keeps the enabled flag from before the first of them
ButtonCallback ==
    /\ horiz_roi.button_visible
    /\ horiz_roi' = HR_button_callback(horiz_roi, multispec, page_nav)
    /\ last' = IF last.op = "button_callback" /\ last.n = 1
               THEN [last EXCEPT !.n = 2]
               ELSE [Last("button_callback") EXCEPT
                        !.n = 1, !.before = horiz_roi.enabled]
    /\ UNCHANGED <<marquee, cloud, multispec, crop_call, page_nav, bench, reading, raman_vars, trigger_vars>>

\* the user ticks or unticks the editing checkbox
CbEditingCallback ==
    /\ horiz_roi.cb_editing_visible
    /\ horiz_roi' = HR_cb_editing_callback(horiz_roi, multispec)
    /\ last' = Last("cb_editing_callback")
    /\ UNCHANGED <<marquee, cloud, multispec, crop_call, page_nav, bench, reading, raman_vars, trigger_vars>>

\* the driver delivers a new reading
NewReading ==
    /\ \E pr \in Readings(Val(bench).settings) : reading' = Some(pr)
    /\ last' = Last("new_reading")
    /\ UNCHANGED <<marquee, cloud, multispec, crop_call, horiz_roi, page_nav, bench, raman_vars, trigger_vars>>

\* Controller.process_reading calls process(pr, settings)
Process ==
    /\ \E settings \in {None, Some(Val(bench).settings)} :
          /\ reading' = process(horiz_roi, reading, settings, multispec)
          /\ last' = [Last("process") EXCEPT
                       !.settings = settings,
                       !.n = IF last.op = "process" /\ last.settings = settings
                             THEN 2 ELSE 1]
    /\ UNCHANGED <<marquee, cloud, multispec, crop_call, horiz_roi, page_nav, bench, raman_vars, trigger_vars>>

NextHorizROI ==
    \/ Connect
    \/ Disconnect
    \/ SetExpert
    \/ InitHotplug
    \/ UpdateVisibility
    \/ ButtonCallback
    \/ CbEditingCallback
    \/ NewReading
    \/ Process

SpecHorizROI == InitHorizROI /\ [][NextHorizROI]_vars

-----------------------------------------------------------------------------
(* RamanModeFeature *)

\* what the user answers to the Raman Mode warning: OK or not, and whether
\* "Don't show again" is ticked
Answers == [ok : BOOLEAN, checked : BOOLEAN]

\* confirm(): True without asking when the warning is suppressed, else the
\* user's answer
RM_confirm(self, answer) == self.suppress \/ answer.ok

\* confirm() saves the approval when the user ticked "Don't show again"
RM_confirm_saves(self, answer) ==
    IF ~self.suppress /\ answer.ok /\ answer.checked
    THEN [self EXCEPT !.suppress = TRUE] ELSE self

\* enable_callback when the user declined: the checkbox is unticked and the
\* method returns
RM_declined(self) == [self EXCEPT !.cb_checked = FALSE]

\* an enable_callback that does not ask for confirmation
RM_enable_callback_unconfirmed(self, answer) ==
    LET enabled == self.visible /\ self.cb_checked
    IN  [self EXCEPT !.enabled = enabled, !.restricted = enabled]

RM_enable_callback(self, answer) ==
    LET enabled == self.visible /\ self.cb_checked
    IN  IF enabled /\ ~RM_confirm(self, answer)
        THEN RM_declined(self)
        ELSE [(IF enabled THEN RM_confirm_saves(self, answer) ELSE self) EXCEPT
                 !.enabled = enabled,
                 !.restricted = enabled]

RM_visible(cur, nav, paused) ==
    IF IsNone(cur) THEN FALSE
    ELSE /\ Val(cur).settings.is_micro
         /\ nav.raman
         /\ paused
         /\ Val(cur).settings.eeprom.has_laser

RM_update_visibility(self, cur, nav, paused, answer) ==
    LET visible == RM_visible(cur, nav, paused)
        s1 == [self EXCEPT !.visible = visible, !.cb_visible = visible]
    IN  IF ~visible
        THEN [s1 EXCEPT !.cb_checked = FALSE, !.restricted = FALSE]
        ELSE RM_enable_callback(s1, answer)

RM_disconnect(self, cur, nav, paused, answer) ==
    RM_update_visibility([self EXCEPT !.cb_checked = FALSE], cur, nav, paused, answer)

\* clicked: Qt has flipped the checkbox, then enable_callback runs
RM_click(self, answer) ==
    RM_enable_callback([self EXCEPT !.cb_checked = ~self.cb_checked], answer)

RM_take_one_start(self) ==
    IF self.enabled THEN [self EXCEPT !.laser_forced_on = TRUE] ELSE self

RM_take_one_complete(self) == [self EXCEPT !.laser_forced_on = FALSE]

\* the bench spectrometers of the feature models: every combination of
\* capability flags, with and without an EEPROM ROI
FeatureSpectrometers ==
    {[settings |-> DeviceSettings(r, MaxLen, micro, laser, triggering)] :
        r \in {None, Some(ROI(0, 1))},
        micro \in BOOLEAN, laser \in BOOLEAN, triggering \in BOOLEAN}

InitRaman ==
    /\ multispec = None
    /\ crop_call = NoCall
    /\ horiz_roi = HorizROIInit(TRUE, TRUE)
    /\ page_nav = [expert |-> FALSE, raman |-> FALSE]
    /\ bench \in {Some(sp) : sp \in {f \in FeatureSpectrometers :
                                        /\ IsNone(f.settings.eeprom.roi)
                                        /\ f.settings.supports_triggering}}
    /\ reading = NoReading
    /\ \E sup \in BOOLEAN : raman_mode = RamanModeInit(sup)
    /\ vcr_paused = FALSE
    /\ TriggerIdle
    /\ CloudIdle
    /\ MarqueeIdle
    /\ last = Last("init")

\* the user enters or leaves the Raman page
SetRaman ==
    /\ page_nav' = [page_nav EXCEPT !.raman = ~page_nav.raman]
    /\ last' = Last("set_raman")
    /\ UNCHANGED <<marquee, cloud, multispec, bench, horiz_vars, raman_vars, trigger_vars>>

\* the VCR controls pause or play and notify their observers, of which
\* update_visibility is one
VcrToggle ==
    /\ vcr_paused' = ~vcr_paused
    /\ \E answer \in Answers :
          /\ raman_mode' = RM_update_visibility(raman_mode, multispec, page_nav,
                                                vcr_paused', answer)
          /\ last' = [Last("vcr") EXCEPT !.answer = answer]
    /\ UNCHANGED <<marquee, cloud, multispec, bench, page_nav, horiz_vars, trigger_vars>>

RamanUpdateVisibility ==
    /\ \E answer \in Answers :
          /\ raman_mode' = RM_update_visibility(raman_mode, multispec, page_nav,
                                                vcr_paused, answer)
          /\ last' = [Last("RM_update_visibility") EXCEPT !.answer = answer]
    /\ UNCHANGED <<marquee, cloud, multispec, bench, page_nav, vcr_paused, horiz_vars, trigger_vars>>

\* Controller.disconnect_device calls disconnect()
RamanDisconnect ==
    /\ \E answer \in Answers :
          /\ raman_mode' = RM_disconnect(raman_mode, multispec, page_nav,
                                         vcr_paused, answer)
          /\ last' = [Last("RM_disconnect") EXCEPT !.answer = answer]
    /\ UNCHANGED <<marquee, cloud, multispec, bench, page_nav, vcr_paused, horiz_vars, trigger_vars>>

\* the user clicks the Raman Mode checkbox.  last counts the clicks in
\* succession that left the checkbox toggled (a refused confirmation puts it
\* back) and keeps the enabled flag from before the first of them
RamanClick ==
    /\ raman_mode.cb_visible
    /\ \E answer \in Answers :
          /\ raman_mode' = RM_click(raman_mode, answer)
          /\ last' = IF raman_mode'.cb_checked = raman_mode.cb_checked
                     THEN [Last("RM_click_refused") EXCEPT !.answer = answer]
                     ELSE IF last.op = "RM_click" /\ last.n = 1
                     THEN [last EXCEPT !.n = 2, !.answer = answer]
                     ELSE [Last("RM_click") EXCEPT
                              !.n = 1, !.before = raman_mode.enabled,
                              !.answer = answer]
    /\ UNCHANGED <<marquee, cloud, multispec, bench, page_nav, vcr_paused, horiz_vars, trigger_vars>>

TakeOneStart ==
    /\ raman_mode' = RM_take_one_start(raman_mode)
    /\ last' = Last("take_one_start")
    /\ UNCHANGED <<marquee, cloud, multispec, bench, page_nav, vcr_paused, horiz_vars, trigger_vars>>

TakeOneComplete ==
    /\ raman_mode' = RM_take_one_complete(raman_mode)
    /\ last' = Last("take_one_complete")
    /\ UNCHANGED <<marquee, cloud, multispec, bench, page_nav, vcr_paused, horiz_vars, trigger_vars>>

NextRaman ==
    \/ Connect
    \/ Disconnect
    \/ SetRaman
    \/ VcrToggle
    \/ RamanUpdateVisibility
    \/ RamanDisconnect
    \/ RamanClick
    \/ TakeOneStart
    \/ TakeOneComplete

SpecRaman == InitRaman /\ [][NextRaman]_vars

-----------------------------------------------------------------------------
(* ExternalTriggerFeature *)

\* multispec.change_device_setting("trigger_source", value), the marquee
\* message when enabling, and spec.reset_acquisition_timeout()
ET_send(dev, value, enabled) ==
    [dev EXCEPT !.pending = Append(dev.pending, value),
                !.last_sent = Some(value),
                !.waiting_shown = dev.waiting_shown \/ enabled]

\* enable_callback: the feature and the device afterwards
ET_enable_callback(self, cur, dev) ==
    IF IsNone(cur) THEN [self |-> self, dev |-> dev]
    ELSE LET enabled == self.cb_checked
             value == IF enabled THEN "EXTERNAL" ELSE "INTERNAL"
             s1 == [self EXCEPT !.enabled = enabled]
         IN  IF value = dev.trigger_source
             THEN [self |-> s1, dev |-> dev]
             ELSE [self |-> s1, dev |-> ET_send(dev, value, enabled)]

\* update_visibility; setChecked emits stateChanged, and so runs
\* enable_callback, when it changes the checkbox
ET_update_visibility(self, cur, dev) ==
    IF IsNone(cur) THEN [self |-> [self EXCEPT !.cb_visible = FALSE], dev |-> dev]
    ELSE LET supports == Val(cur).settings.supports_triggering
             enabled == supports /\ dev.trigger_source = "EXTERNAL"
             s1 == [self EXCEPT !.cb_visible = supports,
                                !.enabled = enabled,
                                !.cb_checked = enabled]
         IN  IF self.cb_checked # enabled
             THEN ET_enable_callback(s1, cur, dev)
             ELSE [self |-> s1, dev |-> dev]

\* stateChanged by the user: Qt has flipped the checkbox, then the callback runs
ET_toggle(self, cur, dev) ==
    ET_enable_callback([self EXCEPT !.cb_checked = ~self.cb_checked], cur, dev)

InitTrigger ==
    /\ multispec = None
    /\ crop_call = NoCall
    /\ horiz_roi = HorizROIInit(TRUE, TRUE)
    /\ page_nav = [expert |-> FALSE, raman |-> FALSE]
    /\ bench \in {Some(sp) : sp \in {f \in FeatureSpectrometers :
                                        /\ IsNone(f.settings.eeprom.roi)
                                        /\ f.settings.eeprom.has_laser
                                        /\ ~f.settings.is_micro}}
    /\ reading = NoReading
    /\ RamanIdle
    /\ \E cv \in BOOLEAN : external_trigger = ExternalTriggerInit(cv)
    /\ \E ts \in {"INTERNAL", "EXTERNAL"} : device = DeviceInit(ts)
    /\ CloudIdle
    /\ MarqueeIdle
    /\ last = Last("init")

\* init_new_spectrometer: the bench spectrometer is connected and selected,
\* and update_visibility is called
TriggerConnect ==
    /\ IsNone(multispec)
    /\ Len(device.pending) < MaxPending
    /\ multispec' = bench
    /\ LET r == ET_update_visibility(external_trigger, bench, device)
       IN  external_trigger' = r.self /\ device' = r.dev
    /\ last' = Last("connect")
    /\ UNCHANGED <<marquee, cloud, bench, page_nav, horiz_vars, raman_vars>>

TriggerUpdateVisibility ==
    /\ Len(device.pending) < MaxPending
    /\ LET r == ET_update_visibility(external_trigger, multispec, device)
       IN  external_trigger' = r.self /\ device' = r.dev
    /\ last' = Last("ET_update_visibility")
    /\ UNCHANGED <<marquee, cloud, multispec, bench, page_nav, horiz_vars, raman_vars>>

\* the user ticks or unticks the external-trigger checkbox; last counts the
\* toggles in succession and keeps the enabled flag from before the first
TriggerToggle ==
    /\ external_trigger.cb_visible
    /\ Len(device.pending) < MaxPending
    /\ LET r == ET_toggle(external_trigger, multispec, device)
       IN  external_trigger' = r.self /\ device' = r.dev
    /\ last' = IF last.op = "ET_toggle" /\ last.n = 1
               THEN [last EXCEPT !.n = 2]
               ELSE [Last("ET_toggle") EXCEPT
                        !.n = 1, !.before = external_trigger.enabled]
    /\ UNCHANGED <<marquee, cloud, multispec, bench, page_nav, horiz_vars, raman_vars>>

\* the device thread applies the oldest queued setting
DriverApply ==
    /\ device.pending # <<>>
    /\ device' = [device EXCEPT !.trigger_source = Head(device.pending),
                                !.pending = Tail(device.pending)]
    /\ last' = Last("driver_apply")
    /\ UNCHANGED <<marquee, cloud, multispec, bench, page_nav, external_trigger, horiz_vars, raman_vars>>

NextTrigger ==
    \/ TriggerConnect
    \/ Disconnect
    \/ TriggerUpdateVisibility
    \/ TriggerToggle
    \/ DriverApply

SpecTrigger == InitTrigger /\ [][NextTrigger]_vars

-----------------------------------------------------------------------------
(* CloudManager *)

\* serial numbers the user may type; the empty string is one of them
Serials == {"", "WP-00001", "WP-00002"}

\* result_message.setText(text); result_message.exec_()
CM_show(self, text) == [self EXCEPT !.call.dialogs = Append(@, text)]

\* setup_connection(): create_session() raises when the credential exchange
\* fails, and nothing here catches it
CM_setup_connection(self, credential_ok) ==
    IF credential_ok
    THEN [self |-> [self EXCEPT !.session = TRUE, !.call.credential = "ok"],
          raised |-> FALSE]
    ELSE [self |-> [self EXCEPT !.call.credential = "failed"], raised |-> TRUE]

\* an attempt_download that tries once more before giving up
CM_attempt_download_retry(self, serial, download_ok) ==
    IF download_ok
    THEN [self |-> [self EXCEPT !.files = @ \cup {serial},
                                !.call.downloads = @ + 1,
                                !.call.download = "ok"],
          result |-> TRUE]
    ELSE [self |-> CM_show([self EXCEPT !.call.downloads = @ + 2,
                                        !.call.download = "failed"],
                           "Error retrieving EEPROM file from server."),
          result |-> FALSE]

\* attempt_download(serial_number): one download_file call inside try/except
CM_attempt_download(self, serial, download_ok) ==
    IF download_ok
    THEN [self |-> [self EXCEPT !.files = @ \cup {serial},
                                !.call.downloads = @ + 1,
                                !.call.download = "ok"],
          result |-> TRUE]
    ELSE [self |-> CM_show([self EXCEPT !.call.downloads = @ + 1,
                                        !.call.download = "failed"],
                           "Error retrieving EEPROM file from server."),
          result |-> FALSE]

\* the rest of perform_restore once the file is there: the import, the error
\* dialog when it fails, and the success dialog
CM_import(self, serial, import_ok) ==
    LET s1 == [self EXCEPT !.call.imports = @ + 1,
                           !.eeprom = IF import_ok THEN Some(serial) ELSE @]
        s2 == IF import_ok THEN s1 ELSE CM_show(s1, "EEPROM Writing Error.")
    IN  CM_show(s2, "EEPROM Restore successful.")

\* perform_restore(), with what the user typed and how each outside call ends
CM_perform_restore(self, serial, credential_ok, download_ok, import_ok) ==
    LET s0 == [self EXCEPT !.call = [NoRestore EXCEPT !.serial = serial]]
        c == CM_setup_connection(s0, credential_ok)
    IN  IF c.raised THEN [c.self EXCEPT !.call.escaped = TRUE]
        ELSE IF IsNone(serial) THEN c.self
        ELSE LET d == CM_attempt_download(c.self, Val(serial), download_ok)
             IN  IF d.result THEN CM_import(d.self, Val(serial), import_ok)
                 ELSE d.self

InitCloud ==
    /\ multispec = None
    /\ crop_call = NoCall
    /\ horiz_roi = HorizROIInit(TRUE, TRUE)
    /\ page_nav = [expert |-> FALSE, raman |-> FALSE]
    /\ bench = None
    /\ reading = NoReading
    /\ RamanIdle
    /\ TriggerIdle
    /\ \E disabled \in BOOLEAN : cloud = CloudInit(disabled)
    /\ MarqueeIdle
    /\ last = Last("init")

\* the user clicks the restore button
PerformRestore ==
    /\ ~cloud.disabled
    /\ \E serial \in {None} \cup {Some(x) : x \in Serials},
          credential_ok \in BOOLEAN, download_ok \in BOOLEAN, import_ok \in BOOLEAN :
          cloud' = CM_perform_restore(cloud, serial, credential_ok,
                                      download_ok, import_ok)
    /\ last' = Last("perform_restore")
    /\ UNCHANGED <<marquee, multispec, bench, page_nav, horiz_vars, raman_vars, trigger_vars>>

NextCloud == PerformRestore

SpecCloud == InitCloud /\ [][NextCloud]_vars

-----------------------------------------------------------------------------
(* Marquee: the message drawer *)

\* most messages posted to the drawer in one run
MaxPosts == 3

\* most toasts created in one run
MaxToasts == 2

M_show(self) == [self EXCEPT !.showing_something = TRUE]

M_hide(self) == [self EXCEPT !.label = "", !.showing_something = FALSE]

\* reset_timers(): clear_timer.stop()
M_reset_timers(self) == [self EXCEPT !.clear_timer = {}]

\* a schedule_clear() whose test of persist is inverted
M_schedule_clear_inverted(self, immediate) ==
    LET s == M_reset_timers(self)
    IN  IF immediate THEN M_hide(s)
        ELSE IF s.persist
             THEN [s EXCEPT !.clear_timer = {DRAWER_DURATION_MS + s.extra_ms}]
             ELSE s

\* schedule_clear(immediate): start(when_ms) restarts the single-shot timer
M_schedule_clear(self, immediate) ==
    LET s == M_reset_timers(self)
    IN  IF immediate THEN M_hide(s)
        ELSE IF ~s.persist
             THEN [s EXCEPT !.clear_timer = {DRAWER_DURATION_MS + s.extra_ms}]
             ELSE s

\* show_immediate(benign): clear_timer.stop(), the stylesheet, schedule_clear()
M_show_immediate(self) ==
    M_schedule_clear([self EXCEPT !.clear_timer = {}], FALSE)

\* an info() that stops no timer and adds its own clear to those pending
M_info_keep(self, msg, persist, token, extra_ms, period_sec) ==
    IF IsNone(msg) THEN self
    ELSE LET extra == IF ~IsNone(period_sec)
                         /\ Val(period_sec) * 1000 > DRAWER_DURATION_MS
                      THEN Val(period_sec) * 1000 - DRAWER_DURATION_MS
                      ELSE extra_ms
         IN  [self EXCEPT !.persist = persist, !.last_token = token,
                          !.extra_ms = extra, !.label = Val(msg),
                          !.showing_something = TRUE,
                          !.clear_timer = IF persist THEN @
                              ELSE @ \cup {DRAWER_DURATION_MS + extra}]

\* info(msg, persist, token, extra_ms, period_sec)
M_info(self, msg, persist, token, extra_ms, period_sec) ==
    IF IsNone(msg) THEN self
    ELSE LET s1 == M_reset_timers(self)
             s2 == [s1 EXCEPT
                      !.persist = persist,
                      !.last_token = token,
                      !.extra_ms = IF ~IsNone(period_sec)
                                      /\ Val(period_sec) * 1000 > DRAWER_DURATION_MS
                                   THEN Val(period_sec) * 1000 - DRAWER_DURATION_MS
                                   ELSE extra_ms]
             s3 == M_show([s2 EXCEPT !.label = Val(msg)])
         IN  M_show_immediate(s3)

\* error(msg, persist, token, extra_ms)
M_error(self, msg, persist, token, extra_ms) ==
    IF IsNone(msg) THEN self
    ELSE LET s1 == M_reset_timers(self)
             s2 == [s1 EXCEPT !.persist = persist, !.last_token = token,
                              !.extra_ms = extra_ms]
             s3 == M_show([s2 EXCEPT !.label = Val(msg)])
         IN  M_show_immediate(s3)

\* Python's truth value of a token: None and the empty string are false
Truthy(token) == ~IsNone(token) /\ Val(token) # ""

\* a clear() that closes whatever is displayed
M_clear_always(self, token, force) == M_schedule_clear(self, TRUE)

\* clear(token, force)
M_clear(self, token, force) ==
    IF force \/ ~self.persist \/ (Truthy(token) /\ token = self.last_token)
    THEN M_schedule_clear(self, TRUE)
    ELSE self

M_close_callback(self) == M_schedule_clear(self, TRUE)

\* tick_clear(): the clear timer's timeout
M_tick_clear(self) == M_hide(self)

\* stop()
M_stop(self) == [self EXCEPT !.toast_timer = {}, !.clear_timer = {}]

\* what callers post and pass
Msgs == {None, Some("low battery"), Some("saved")}
Tokens == {None, Some(""), Some("tip"), Some("other")}
ExtraMs == {0, 1000}
PeriodSec == {None, Some(2), Some(4)}

\* the time that passes in one step of the clock, in ms
ElapseMs == {1000}

\* bookkeeping of a post: the message's age starts again, its display time is
\* the one its clear would be armed with
Posted(self, msg) ==
    IF IsNone(msg) THEN self
    ELSE [self EXCEPT !.age = 0, !.due = DRAWER_DURATION_MS + self.extra_ms,
                      !.posted = @ + 1]

Others == <<cloud, multispec, bench, page_nav, horiz_vars, raman_vars, trigger_vars>>

InitMarquee ==
    /\ multispec = None
    /\ crop_call = NoCall
    /\ horiz_roi = HorizROIInit(TRUE, TRUE)
    /\ page_nav = [expert |-> FALSE, raman |-> FALSE]
    /\ bench = None
    /\ reading = NoReading
    /\ RamanIdle
    /\ TriggerIdle
    /\ CloudIdle
    /\ marquee = MarqueeInit
    /\ last = Last("init")

Info ==
    /\ marquee.posted < MaxPosts
    /\ \E msg \in Msgs, persist \in BOOLEAN, token \in Tokens,
          extra_ms \in ExtraMs, period_sec \in PeriodSec :
          /\ marquee' = Posted(M_info(marquee, msg, persist, token, extra_ms,
                                      period_sec), msg)
          /\ last' = [Last("info") EXCEPT
                        !.token = token,
                        !.n = IF IsNone(msg) THEN 0 ELSE 1,
                        !.before = marquee.clear_timer # {} /\ marquee.age > 0]
    /\ UNCHANGED Others

Error ==
    /\ marquee.posted < MaxPosts
    /\ \E msg \in Msgs, persist \in BOOLEAN, token \in Tokens,
          extra_ms \in ExtraMs :
          /\ marquee' = Posted(M_error(marquee, msg, persist, token, extra_ms), msg)
          /\ last' = [Last("error") EXCEPT
                        !.token = token,
                        !.n = IF IsNone(msg) THEN 0 ELSE 1,
                        !.before = marquee.clear_timer # {} /\ marquee.age > 0]
    /\ UNCHANGED Others

Clear ==
    /\ \E token \in Tokens, force \in BOOLEAN :
          /\ marquee' = M_clear(marquee, token, force)
          /\ last' = [Last("clear") EXCEPT !.token = token, !.force = force]
    /\ UNCHANGED Others

\* the user clicks the drawer's close button
CloseCallback ==
    /\ marquee' = M_close_callback(marquee)
    /\ last' = Last("close_callback")
    /\ UNCHANGED Others

MarqueeStop ==
    /\ marquee' = M_stop(marquee)
    /\ last' = Last("stop")
    /\ UNCHANGED Others

\* time passes, but not beyond a pending expiry of the clear timer
Elapse ==
    /\ \E dt \in ElapseMs :
          /\ \A t \in marquee.clear_timer : dt <= t
          /\ marquee' = [marquee EXCEPT
                !.clear_timer = {t - dt : t \in marquee.clear_timer},
                !.age = IF @ + dt > marquee.due THEN marquee.due ELSE @ + dt]
    /\ last' = Last("elapse")
    /\ UNCHANGED Others

\* the clear timer runs out: being single-shot it is no longer pending when
\* tick_clear runs
TickClear ==
    /\ 0 \in marquee.clear_timer
    /\ marquee' = M_tick_clear([marquee EXCEPT !.clear_timer = @ \ {0}])
    /\ last' = Last("tick_clear")
    /\ UNCHANGED Others

NextMarquee ==
    \/ Info
    \/ Error
    \/ Clear
    \/ CloseCallback
    \/ MarqueeStop
    \/ Elapse
    \/ TickClear

SpecMarquee == InitMarquee /\ [][NextMarquee]_vars

\* the event loop runs: time passes and a timer that has run out fires
SpecMarqueeFair == SpecMarquee /\ WF_vars(Elapse) /\ WF_vars(TickClear)

-----------------------------------------------------------------------------
(* Marquee: toasts *)

\* a toast() that hands every dialog to the fade timer
M_toast_fades_all(self, persist, error) ==
    LET dialog == [persist |-> persist, error |-> error, opacity |-> 100,
                   open |-> TRUE]
        s1 == [self EXCEPT !.dialogs = Append(@, dialog)]
    IN  [s1 EXCEPT !.toast_dialog = Some(Len(s1.dialogs)),
                   !.toast_timer = {TOAST_DURATION_MS},
                   !.toast_opacity = 100]

\* toast(msg, persist, error): a message box is created and executed; only a
\* plain toast is handed to the fade timer.  A dialog keeps the flags it was
\* created with, its window opacity in percent, and whether it is still open
M_toast(self, persist, error) ==
    LET dialog == [persist |-> persist, error |-> error, opacity |-> 100,
                   open |-> TRUE]
        s1 == [self EXCEPT !.dialogs = Append(@, dialog)]
    IN  IF ~(persist \/ error)
        THEN [s1 EXCEPT !.toast_dialog = Some(Len(s1.dialogs)),
                        !.toast_timer = {TOAST_DURATION_MS},
                        !.toast_opacity = 100]
        ELSE s1

\* fade_toast(): one step of the fade, or the close
M_fade_toast(self) ==
    IF IsNone(self.toast_dialog) THEN self
    ELSE LET i == Val(self.toast_dialog)
             opacity == self.toast_opacity - TOAST_FADE_STEP_OPACITY_PERCENT
         IN  IF opacity > 0
             THEN [self EXCEPT !.toast_opacity = opacity,
                               !.dialogs[i].opacity = opacity,
                               !.toast_timer = {TOAST_FADE_STEP_MS}]
             ELSE [self EXCEPT !.toast_opacity = opacity,
                               !.dialogs[i].open = FALSE,
                               !.toast_dialog = None]

Toast ==
    /\ Len(marquee.dialogs) < MaxToasts
    /\ \E persist \in BOOLEAN, error \in BOOLEAN :
          marquee' = M_toast(marquee, persist, error)
    /\ last' = Last("toast")
    /\ UNCHANGED Others

\* the toast timer runs out after the w ms it was started with: being
\* single-shot it is no longer pending when fade_toast runs
ToastTimeout ==
    /\ \E w \in marquee.toast_timer :
          /\ marquee' = M_fade_toast([marquee EXCEPT !.toast_timer = @ \ {w}])
          /\ last' = [Last("fade_toast") EXCEPT !.waited = w]
    /\ UNCHANGED Others

\* the user dismisses a message box
ToastDismiss ==
    /\ \E i \in 1..Len(marquee.dialogs) :
          /\ marquee.dialogs[i].open
          /\ marquee' = [marquee EXCEPT !.dialogs[i].open = FALSE]
    /\ last' = Last("toast_dismiss")
    /\ UNCHANGED Others

NextToast ==
    \/ Toast
    \/ ToastTimeout
    \/ ToastDismiss
    \/ MarqueeStop

SpecToast == InitMarquee /\ [][NextToast]_vars

\* the event loop runs: a toast timer that has run out fires
SpecToastFair == SpecToast /\ WF_vars(ToastTimeout)

-----------------------------------------------------------------------------
(* Properties of crop, under SpecCrop *)

CropDone == ~IsNone(crop_call) /\ last.op = "crop"
CropArg == Val(crop_call)

\* the ROI a caller means: the one passed, else the given spectrometer's, else
\* the current spectrometer's
MeantROI ==
    LET c == CropArg
    IN  IF ~IsNone(c.roi) THEN c.roi
        ELSE IF ~IsNone(c.spec) /\ ~IsNone(get_horizontal_roi(Val(c.spec).settings))
             THEN get_horizontal_roi(Val(c.spec).settings)
        ELSE IF ~IsNone(multispec) THEN get_horizontal_roi(Val(multispec).settings)
        ELSE None

\* b is a[start:end], element by element
IsSubrange(b, a, start, end) ==
    /\ Len(b) = end - start
    /\ \A i \in 0..(end - start - 1) : b[i + 1] = a[start + i + 1]

\* C1: for every array of length n and every ROI with 0 <= start < end <= n,
\* crop returns the end - start elements of the array from index start on.
C1_CropReturnsSubrange ==
    (/\ CropDone
     /\ ~IsNone(CropArg.spectrum)
     /\ ~IsNone(CropArg.roi)
     /\ 0 <= Val(CropArg.roi).start
     /\ Val(CropArg.roi).start < Val(CropArg.roi).end
     /\ Val(CropArg.roi).end <= Len(Val(CropArg.spectrum)))
    => /\ ~CropArg.result.raised
       /\ ~IsNone(CropArg.result.value)
       /\ IsSubrange(Val(CropArg.result.value), Val(CropArg.spectrum),
                     Val(CropArg.roi).start, Val(CropArg.roi).end)

\* C2: for every non-null array, when no ROI can be found, or the ROI is
\* invalid (start >= end) or has start or end outside the array, crop returns
\* exactly the input array.
C2_CropIdentityWithoutUsableROI ==
    (/\ CropDone
     /\ ~IsNone(CropArg.spectrum)
     /\ \/ IsNone(MeantROI)
        \/ Val(MeantROI).start >= Val(MeantROI).end
        \/ Val(MeantROI).start >= Len(Val(CropArg.spectrum))
        \/ Val(MeantROI).end > Len(Val(CropArg.spectrum)))
    => CropArg.result = Returned(CropArg.spectrum)

\* C3: crop never ends in an error, whatever its arguments and whether or not
\* a spectrometer is connected.
C3_CropNeverRaises == CropDone => ~CropArg.result.raised

-----------------------------------------------------------------------------
(* Properties of process, under SpecHorizROI *)

\* the state right after a process() call that built a cropped bundle
ProcessRan ==
    /\ last.op = "process"
    /\ horiz_roi.enabled
    /\ ~IsNone(reading)
    /\ ~IsNone(Val(reading).processed)
    /\ ~IsNone(process_settings(reading, last.settings, multispec))
    /\ ~IsNone(get_horizontal_roi(
                 Val(process_settings(reading, last.settings, multispec))))

ProcSettings == Val(process_settings(reading, last.settings, multispec))
ProcROI == Val(get_horizontal_roi(ProcSettings))

SliceOf(a, roi) ==
    IF IsNone(a) THEN None ELSE Some(Slice(Val(a), roi.start, roi.end))

\* C4: when the feature is enabled and the ROI is valid and in bounds, every
\* array of the cropped bundle (processed, raw, dark, reference, wavelengths,
\* wavenumbers) is the [start, end) slice of the same-named array of the input.
C4_ProcessCropsEveryArray ==
    (ProcessRan /\ ~crop_rejects(ProcROI, MaxLen))
    => /\ ~IsNone(Val(reading).cropped)
       /\ LET prc == Val(Val(reading).cropped)
              pr == Val(reading)
          IN  /\ prc.processed   = SliceOf(pr.processed, ProcROI)
              /\ prc.raw         = SliceOf(pr.raw, ProcROI)
              /\ prc.dark        = SliceOf(pr.dark, ProcROI)
              /\ prc.reference   = SliceOf(pr.reference, ProcROI)
              /\ prc.wavelengths = SliceOf(ProcSettings.wavelengths, ProcROI)
              /\ prc.wavenumbers = SliceOf(ProcSettings.wavenumbers, ProcROI)

\* C5: process is non-destructive: a process() call leaves the reading's
\* processed, raw, dark and reference arrays, its settings (wavelengths and
\* wavenumbers) and the spectrometer's settings as they were; only cropped
\* may differ.
C5_ProcessNonDestructive ==
    [][last'.op = "process" =>
         /\ IsNone(reading') = IsNone(reading)
         /\ ~IsNone(reading) =>
               /\ Val(reading').processed = Val(reading).processed
               /\ Val(reading').raw = Val(reading).raw
               /\ Val(reading').dark = Val(reading).dark
               /\ Val(reading').reference = Val(reading).reference
               /\ Val(reading').settings = Val(reading).settings
         /\ multispec' = multispec
         /\ bench' = bench]_vars

\* a process() call has really cropped: the stored spectrum is shorter than
\* the original, which is still whole
C5_Witness ==
    /\ ProcessRan
    /\ ~IsNone(Val(reading).cropped)
    /\ Len(Val(Val(Val(reading).cropped).processed)) < MaxLen
    /\ Val(reading).processed = Some(Ramp(10, MaxLen))

\* C6: a process() call that follows another on the same reading, with the same
\* settings argument, ROI and enablement, leaves reading.cropped as the first
\* call left it: the bundle is overwritten from the original arrays.
C6_ProcessOverwrites ==
    [][(/\ last.op = "process"
        /\ last'.op = "process"
        /\ last'.settings = last.settings) => reading' = reading]_vars

\* the second of two process() calls has run on a reading that holds a genuinely
\* cropped bundle
C6_Witness ==
    /\ ProcessRan
    /\ last.n = 2
    /\ ~IsNone(Val(reading).cropped)
    /\ Len(Val(Val(Val(reading).cropped).processed)) < MaxLen

-----------------------------------------------------------------------------
(* Properties of the feature controls *)

\* the flags and widget state update_visibility recomputes
RM_flags(self) == <<self.enabled, self.visible, self.cb_visible, self.cb_checked>>
HR_flags(self) == <<self.enabled, self.button_visible, self.cb_editing_visible>>
ET_flags(self) == <<self.enabled, self.cb_visible, self.cb_checked>>

\* C7: update_visibility is idempotent for each of the three features: right
\* after one call, a second call with the same spectrometer, capability
\* flags, page, pause state, checkbox state and user answer changes neither
\* the enabled/visible flags nor the widgets.
C7_UpdateVisibilityIdempotent ==
    /\ last.op = "RM_update_visibility" =>
          RM_flags(RM_update_visibility(raman_mode, multispec, page_nav,
                                        vcr_paused, last.answer))
            = RM_flags(raman_mode)
    /\ last.op = "update_visibility" =>
          HR_flags(HR_update_visibility(horiz_roi, multispec, page_nav))
            = HR_flags(horiz_roi)
    /\ last.op = "ET_update_visibility" =>
          ET_flags(ET_update_visibility(external_trigger, multispec, device).self)
            = ET_flags(external_trigger)

\* C8: two toggles in succession of a feature control (external-trigger
\* checkbox, ROI button, Raman-mode checkbox) return the feature's enabled
\* flag to its value before the first toggle.
C8_DoubleToggleRestoresEnabled ==
    /\ (last.op = "RM_click" /\ last.n = 2) => raman_mode.enabled = last.before
    /\ (last.op = "button_callback" /\ last.n = 2) => horiz_roi.enabled = last.before
    /\ (last.op = "ET_toggle" /\ last.n = 2) => external_trigger.enabled = last.before

\* C8, second half: a toggle whose resulting trigger-source value equals the
\* spectrometer's current trigger source issues no hardware-setting write.
C8_NoWriteWhenUnchanged ==
    [][(/\ last'.op = "ET_toggle"
        /\ (IF external_trigger'.cb_checked THEN "EXTERNAL" ELSE "INTERNAL")
              = device.trigger_source)
       => device' = device]_vars

-----------------------------------------------------------------------------
(* Properties of the cloud restore, under SpecCloud *)

RestoreDone == last.op = "perform_restore"

\* C9: no exception escapes perform_restore: a failed credential exchange and
\* a failed download are both caught and a modal message is shown.
C9_RestoreCatchesEveryFailure ==
    RestoreDone =>
        /\ ~cloud.call.escaped
        /\ (cloud.call.credential = "failed" \/ cloud.call.download = "failed")
              => cloud.call.dialogs # <<>>

\* C10: a perform_restore makes at most one download attempt; when it fails,
\* exactly one dialog, the retrieval error, is shown, no EEPROM import is
\* attempted and no success message is shown.
C10_SingleAttemptThenFailureDialog ==
    RestoreDone =>
        /\ cloud.call.downloads <= 1
        /\ cloud.call.download = "failed" =>
              /\ cloud.call.dialogs = <<"Error retrieving EEPROM file from server.">>
              /\ cloud.call.imports = 0

\* a restore whose download failed, after an earlier one that succeeded
C10_Witness ==
    /\ RestoreDone
    /\ cloud.call.download = "failed"
    /\ cloud.call.downloads = 1
    /\ ~IsNone(cloud.eeprom)

-----------------------------------------------------------------------------
(* Properties of the message drawer, under SpecMarquee and SpecMarqueeFair *)

\* a message has just been posted by info() or error()
JustPosted == last.op \in {"info", "error"} /\ last.n = 1

\* C13: after info() or error() with persist=False the single-shot clear timer
\* is armed for DRAWER_DURATION_MS + extra_ms; its expiry clears the label and
\* sets showing_something False; only stop() takes the pending clear away
\* from a displayed message; and unless a further message is posted or the
\* timers are stopped, the message is eventually removed.
C13_MessageEventuallyCleared ==
    /\ []((JustPosted /\ ~marquee.persist) =>
            /\ marquee.showing_something
            /\ marquee.clear_timer = {DRAWER_DURATION_MS + marquee.extra_ms})
    /\ [][last'.op = "tick_clear" =>
            marquee'.label = "" /\ ~marquee'.showing_something]_vars
    /\ [][(/\ marquee.clear_timer # {}
           /\ marquee'.clear_timer = {}
           /\ marquee'.showing_something
           /\ marquee'.posted = marquee.posted) => last'.op = "stop"]_vars
    /\ \A k \in 1..MaxPosts :
          (/\ marquee.posted = k
           /\ marquee.showing_something
           /\ ~marquee.persist
           /\ marquee.clear_timer # {})
          ~> (\/ ~marquee.showing_something /\ marquee.label = ""
              \/ marquee.posted # k
              \/ marquee.clear_timer = {})

\* the clear timer of a message posted with extra time has run out and the
\* message is gone
C13_Witness ==
    /\ last.op = "tick_clear"
    /\ ~marquee.showing_something
    /\ marquee.label = ""
    /\ marquee.due > DRAWER_DURATION_MS
    /\ marquee.age = marquee.due

\* C14: a message posted with persist=True has no clear timer armed and stays
\* displayed: it goes away or changes only through a new message, the close
\* button, clear(force=True) or clear(token) with the message's own token;
\* no timer expiry and no other clear() removes it.
C14_PersistentMessageStays ==
    /\ []((marquee.showing_something /\ marquee.persist) =>
             marquee.clear_timer = {})
    /\ [][(/\ marquee.showing_something
           /\ marquee.persist
           /\ \/ ~marquee'.showing_something
              \/ marquee'.label # marquee.label
              \/ marquee'.persist # marquee.persist)
          => \/ marquee'.posted # marquee.posted
             \/ last'.op = "close_callback"
             \/ /\ last'.op = "clear"
                /\ \/ last'.force
                   \/ ~IsNone(last'.token) /\ last'.token = marquee.last_token]_vars

\* a persistent message, displayed for its whole nominal time and longer, has
\* survived a clear() with a token that is not its own
C14_Witness ==
    /\ last.op = "clear"
    /\ ~last.force
    /\ Truthy(last.token)
    /\ marquee.showing_something
    /\ marquee.persist
    /\ marquee.age = marquee.due

\* C18: at most one clear is pending at any time; every info()/error() that
\* posts a message leaves pending only the clear of that message, if any; and
\* the clear timer hides a displayed message only when that message's own
\* display duration has elapsed since it was posted.
C18_TimersRearmedPerMessage ==
    /\ [](Cardinality(marquee.clear_timer) <= 1)
    /\ [](JustPosted =>
            marquee.clear_timer \subseteq {DRAWER_DURATION_MS + marquee.extra_ms})
    /\ [][(last'.op = "tick_clear" /\ marquee.showing_something) =>
             marquee.age = marquee.due]_vars

\* a message has been posted while the clear of an earlier message was
\* pending and partly elapsed, and only its own clear is pending now
C18_Witness ==
    /\ JustPosted
    /\ last.before
    /\ marquee.posted >= 2
    /\ marquee.clear_timer = {DRAWER_DURATION_MS + marquee.extra_ms}

\* C19: clear(token=t) without force closes the displayed message only if that
\* message was posted with the same token t.
C19_ClearByTokenOnlyMatching ==
    [][(/\ last'.op = "clear"
        /\ ~last'.force
        /\ marquee.showing_something
        /\ ~marquee'.showing_something)
       => ~IsNone(last'.token) /\ last'.token = marquee.last_token]_vars

-----------------------------------------------------------------------------
(* Properties of Raman Mode, under SpecRaman *)

\* C11: Raman Mode is off after construction, and enabled changes from False
\* to True only in enable_callback (run by a click or by update_visibility),
\* with the checkbox visible and ticked and confirm() returning True.
C11_RamanModeOffAtStartup ==
    /\ ~raman_mode.enabled
    /\ [][(~raman_mode.enabled /\ raman_mode'.enabled) =>
            /\ last'.op \in {"RM_click", "RM_update_visibility", "vcr",
                             "RM_disconnect"}
            /\ raman_mode'.visible
            /\ raman_mode'.cb_visible
            /\ raman_mode'.cb_checked
            /\ RM_confirm(raman_mode, last'.answer)]_vars

\* the user has ticked the checkbox and answered the warning with OK
C11_Witness ==
    /\ last.op = "RM_click"
    /\ last.answer.ok
    /\ ~raman_mode.suppress
    /\ raman_mode.enabled
    /\ raman_mode.cb_checked

\* C12: after disconnect() returns, enabled is False, the checkbox is
\* unticked, and a take_one_start that follows does not force the laser
\* button on.
C12_DisconnectTurnsOff ==
    last.op = "RM_disconnect" =>
        /\ ~raman_mode.enabled
        /\ ~raman_mode.cb_checked
        /\ RM_take_one_start(raman_mode) = raman_mode

-----------------------------------------------------------------------------
(* Further properties of the horizontal ROI, under SpecHorizROI *)

\* C16: after init_hotplug or update_visibility, enabled is True exactly when
\* there is a current spectrometer, its EEPROM has a horizontal ROI and the
\* user has not switched the feature off.
C16_EnabledFollowsDevice ==
    last.op \in {"init_hotplug", "update_visibility"} =>
        horiz_roi.enabled =
            (IF IsNone(multispec) THEN FALSE
             ELSE /\ has_horizontal_roi(Val(multispec).settings)
                  /\ horiz_roi.user_requested_enabled)

\* process(pr, settings) has nothing to crop with: the feature is off, or the
\* reading or its processed array is null, or no settings or no ROI is found
ProcessSkips(self, pr, settings, cur) ==
    IF ~self.enabled \/ IsNone(pr) THEN TRUE
    ELSE IF IsNone(Val(pr).processed) THEN TRUE
    ELSE IF IsNone(process_settings(pr, settings, cur)) THEN TRUE
    ELSE IsNone(get_horizontal_roi(Val(process_settings(pr, settings, cur))))

\* C20: when the feature is disabled, or the reading or its processed array
\* is null, or no settings or no ROI can be found, process leaves the reading
\* entirely unchanged, its cropped field included.
C20_ProcessSkipsUntouched ==
    [][(/\ last'.op = "process"
        /\ ProcessSkips(horiz_roi, reading, last'.settings, multispec))
       => reading' = reading]_vars

\* process() ran with the feature switched off on a reading that already
\* holds a cropped bundle, and with an ROI at hand
C20_Witness ==
    /\ last.op = "process"
    /\ ~horiz_roi.enabled
    /\ ~IsNone(reading)
    /\ ~IsNone(Val(reading).processed)
    /\ ~IsNone(Val(reading).cropped)
    /\ ~ProcessSkips([horiz_roi EXCEPT !.enabled = TRUE], reading,
                     last.settings, multispec)

-----------------------------------------------------------------------------
(* Further properties of the external trigger, under SpecTrigger *)

\* C17: change_device_setting("trigger_source", v) is never issued twice in a
\* row with the same value v, however late the driver updates the
\* spectrometer's trigger source.
C17_TriggerSourceSentOnce ==
    [][Len(device'.pending) > Len(device.pending) =>
          device'.last_sent # device.last_sent]_vars

-----------------------------------------------------------------------------
(* Properties of the toasts, under SpecToast and SpecToastFair *)

\* dialog i was created by toast() with neither persist nor error
AutoToast(i) ==
    /\ i <= Len(marquee.dialogs)
    /\ ~marquee.dialogs[i].persist
    /\ ~marquee.dialogs[i].error

\* C15: for a toast shown with persist=False and error=False the first
\* fade_toast runs TOAST_DURATION_MS after toast() and each later one
\* TOAST_FADE_STEP_MS after the one before; each lowers the opacity by the
\* fixed step and none raises it; the step that closes the dialog sets
\* toast_dialog to None and does not start the timer again; and every such
\* toast is eventually closed unless the timers are stopped.
C15_ToastFadeTerminates ==
    /\ [][(last'.op = "fade_toast" /\ ~IsNone(marquee.toast_dialog)) =>
            LET i == Val(marquee.toast_dialog)
            IN  /\ last'.waited = IF marquee.dialogs[i].opacity = 100
                                  THEN TOAST_DURATION_MS
                                  ELSE TOAST_FADE_STEP_MS
                /\ marquee'.dialogs[i].opacity <= marquee.dialogs[i].opacity
                /\ \/ /\ marquee'.dialogs[i].opacity =
                           marquee.dialogs[i].opacity
                             - TOAST_FADE_STEP_OPACITY_PERCENT
                      /\ marquee'.toast_timer = {TOAST_FADE_STEP_MS}
                   \/ /\ ~marquee'.dialogs[i].open
                      /\ IsNone(marquee'.toast_dialog)
                      /\ marquee'.toast_timer = {}]_vars
    /\ \A i \in 1..MaxToasts :
          (AutoToast(i) /\ marquee.dialogs[i].open)
          ~> (\/ AutoToast(i) /\ ~marquee.dialogs[i].open
              \/ ~IsNone(marquee.toast_dialog) /\ marquee.toast_timer = {})

\* C21: a toast shown with persist=True or error=True is never auto-faded or
\* auto-closed: the fade timer never holds such a dialog, and no fade_toast
\* step changes its opacity or closes it, also when the timer of an earlier
\* auto-fading toast is still pending.
C21_PersistentToastNeverFaded ==
    /\ [](~IsNone(marquee.toast_dialog) => AutoToast(Val(marquee.toast_dialog)))
    /\ [][last'.op = "fade_toast" =>
            \A i \in 1..Len(marquee.dialogs) :
                (marquee.dialogs[i].persist \/ marquee.dialogs[i].error) =>
                    marquee'.dialogs[i] = marquee.dialogs[i]]_vars

\* fade_toast has run on an earlier auto-fading toast after a persistent or
\* error toast was shown, which is still open at full opacity
C21_Witness ==
    /\ last.op = "fade_toast"
    /\ Len(marquee.dialogs) >= 2
    /\ AutoToast(1)
    /\ marquee.dialogs[1].opacity < 100
    /\ marquee.dialogs[2].persist \/ marquee.dialogs[2].error
    /\ marquee.dialogs[2].open
    /\ marquee.dialogs[2].opacity = 100

====
